---- MODULE Spec2Model ----
(***************************************************************************)
(* Model of the status monitor (src/monitor.go, src/config.go): the        *)
(* Monitor's Registry of Instances, the reconciliation updateInstances,    *)
(* the check cycle checkAll / checkInstance, the publish/subscribe         *)
(* broadcastUpdate / RegisterClient / UnregisterClient and the SSE handler *)
(* handleSSE.                                                              *)
(*                                                                         *)
(* Text is modelled at the level of JSON tokens: a body is a sequence of   *)
(* tokens, the punctuation tokens are "{" "}" "[" "]" ":" "," "true"       *)
(* "false" and every other token is a quoted JSON string (its content).    *)
(* strings.Index(text, "\"key\"") is the search of the string token key.   *)
(* Modelling assumption: quoted strings hold no brace, quote or escape.    *)
(***************************************************************************)
EXTENDS Integers, Sequences, FiniteSets, TLC

\* ------------------------------------------------------------------------
\* Bounds of the model and program constants
\* ------------------------------------------------------------------------

\* config.MaxCheckHistory (src/config.go getMaxHistory, always >= 1), small here
MaxCheckHistory == 4

\* number of reconciliations (updateInstances calls) explored
MaxReconciles == 2

\* number of check cycles (checkAll calls) explored
MaxCycles == 3

\* capacity of a subscriber's channel: make(chan []byte, 10) in handleSSE, scaled
\* down so that a channel fills within MaxCycles broadcasts
InboxCap == 2

\* ------------------------------------------------------------------------
\* JSON at token level: encoding/json.Unmarshal
\* ------------------------------------------------------------------------

Punct == {"{", "}", "[", "]", ":", ",", "true", "false"}

Range(s) == {s[i] : i \in DOMAIN s}

EmptyMap == [x \in {} |-> 0]

MapPut(m, key, v) == [x \in (DOMAIN m) \cup {key} |-> IF x = key THEN v ELSE m[x]]

ParseFail == [ok |-> FALSE]

RECURSIVE ParseValue(_, _)
RECURSIVE ParseMembers(_, _, _, _)
RECURSIVE ParseElems(_, _, _)

\* one JSON value starting at token i: [ok, v, next]
ParseValue(t, i) ==
    IF i > Len(t) THEN ParseFail
    ELSE IF t[i] = "{" THEN
        IF i + 1 <= Len(t) /\ t[i + 1] = "}"
        THEN [ok |-> TRUE, v |-> [k |-> "obj", m |-> EmptyMap, keys |-> <<>>], next |-> i + 2]
        ELSE ParseMembers(t, i + 1, EmptyMap, <<>>)
    ELSE IF t[i] = "[" THEN
        IF i + 1 <= Len(t) /\ t[i + 1] = "]"
        THEN [ok |-> TRUE, v |-> [k |-> "arr", a |-> <<>>], next |-> i + 2]
        ELSE ParseElems(t, i + 1, <<>>)
    ELSE IF t[i] \in {"true", "false"} THEN
        [ok |-> TRUE, v |-> [k |-> "bool", b |-> (t[i] = "true")], next |-> i + 1]
    ELSE IF t[i] \in Punct THEN ParseFail
    ELSE [ok |-> TRUE, v |-> [k |-> "str", s |-> t[i]], next |-> i + 1]

\* members of an object, token i is the next key; a repeated key overwrites.
\* keys is the keys in the order of the text: a Go map does not keep it, and only
\* the properties stated about the program read it
ParseMembers(t, i, m, keys) ==
    IF i + 2 > Len(t) \/ t[i] \in Punct \/ t[i + 1] # ":" THEN ParseFail
    ELSE LET r == ParseValue(t, i + 2) IN
         IF ~r.ok \/ r.next > Len(t) THEN ParseFail
         ELSE IF t[r.next] = ","
              THEN ParseMembers(t, r.next + 1, MapPut(m, t[i], r.v), Append(keys, t[i]))
         ELSE IF t[r.next] = "}" THEN
              [ok |-> TRUE,
               v |-> [k |-> "obj", m |-> MapPut(m, t[i], r.v), keys |-> Append(keys, t[i])],
               next |-> r.next + 1]
         ELSE ParseFail

\* elements of an array, token i starts the next element
ParseElems(t, i, a) ==
    LET r == ParseValue(t, i) IN
    IF ~r.ok \/ r.next > Len(t) THEN ParseFail
    ELSE IF t[r.next] = "," THEN ParseElems(t, r.next + 1, Append(a, r.v))
    ELSE IF t[r.next] = "]" THEN
         [ok |-> TRUE, v |-> [k |-> "arr", a |-> Append(a, r.v)], next |-> r.next + 1]
    ELSE ParseFail

\* a whole text is one JSON value with nothing after it
ParseJSON(t) ==
    LET r == ParseValue(t, 1) IN
    IF r.ok /\ r.next = Len(t) + 1 THEN r ELSE ParseFail

IsStrArr(v) == v.k = "arr" /\ \A i \in DOMAIN v.a : v.a[i].k = "str"

StrArr(v) == [i \in DOMAIN v.a |-> v.a[i].s]

\* type ApiGroupDetail struct { URLs []string `json:"urls"`; Cors bool `json:"cors"` }
ApiGroupDetailOK(v) ==
    /\ v.k = "obj"
    /\ "urls" \in DOMAIN v.m => IsStrArr(v.m["urls"])
    /\ "cors" \in DOMAIN v.m => v.m["cors"].k = "bool"

ApiGroupDetail(v) ==
    [URLs |-> IF "urls" \in DOMAIN v.m THEN StrArr(v.m["urls"]) ELSE <<>>,
     Cors |-> IF "cors" \in DOMAIN v.m THEN v.m["cors"].b ELSE FALSE]

\* json.Unmarshal(body, &data) with data of type InstancesJSON: [ok, API, UI]
UnmarshalInstancesJSON(body) ==
    LET r == ParseJSON(body) IN
    IF ~r.ok \/ r.v.k # "obj" THEN ParseFail
    ELSE LET top == r.v.m
             hasApi == "api" \in DOMAIN top
             hasUi == "ui" \in DOMAIN top
             apiOK == hasApi =>
                        /\ top["api"].k = "obj"
                        /\ \A g \in DOMAIN top["api"].m : ApiGroupDetailOK(top["api"].m[g])
             uiOK == hasUi =>
                        /\ top["ui"].k = "obj"
                        /\ \A g \in DOMAIN top["ui"].m : IsStrArr(top["ui"].m[g])
         IN IF ~(apiOK /\ uiOK) THEN ParseFail
            ELSE [ok |-> TRUE,
                  API |-> IF hasApi
                          THEN [g \in DOMAIN top["api"].m |-> ApiGroupDetail(top["api"].m[g])]
                          ELSE EmptyMap,
                  UI |-> IF hasUi
                         THEN [g \in DOMAIN top["ui"].m |-> StrArr(top["ui"].m[g])]
                         ELSE EmptyMap]

\* json.Unmarshal(sectionJSON, &groups) with groups map[string]interface{}: the keys
\* (an error leaves the map nil)
UnmarshalKeys(sectionJSON) ==
    LET r == ParseJSON(sectionJSON) IN
    IF r.ok /\ r.v.k = "obj" THEN DOMAIN r.v.m ELSE {}

\* ------------------------------------------------------------------------
\* extractOrderFromJSON
\* ------------------------------------------------------------------------

\* strings.Index(text[from:], quoted s) + from, 1-based; 0 stands for -1
IndexFrom(t, from, s) ==
    LET hits == {i \in from..Len(t) : t[i] = s} IN
    IF hits = {} THEN 0 ELSE CHOOSE i \in hits : \A j \in hits : i <= j

RECURSIVE BraceScan(_, _, _)
\* the loop of lines 183-190: the exclusive end of the section
BraceScan(t, braceEnd, braceCount) ==
    IF braceEnd <= Len(t) /\ braceCount > 0
    THEN BraceScan(t, braceEnd + 1,
                   IF t[braceEnd] = "{" THEN braceCount + 1
                   ELSE IF t[braceEnd] = "}" THEN braceCount - 1
                   ELSE braceCount)
    ELSE braceEnd

RECURSIVE OrderLoop(_, _, _, _)
\* the loop of lines 199-232
OrderLoop(sectionJSON, groups, order, pos) ==
    IF Len(order) >= Cardinality(groups) THEN order
    ELSE LET found == {key \in groups \ Range(order) : IndexFrom(sectionJSON, pos, key) # 0} IN
         IF found = {} THEN order
         ELSE LET earliestKey == CHOOSE key \in found : \A other \in found :
                                     IndexFrom(sectionJSON, pos, key)
                                        <= IndexFrom(sectionJSON, pos, other)
                  earliestPos == IndexFrom(sectionJSON, pos, earliestKey)
              IN OrderLoop(sectionJSON, groups, Append(order, earliestKey), earliestPos + 1)

extractOrderFromJSON(jsonStr, section) ==
    LET sectionStart == IndexFrom(jsonStr, 1, section) IN
    IF sectionStart = 0 THEN <<>>
    ELSE LET braceStart == IndexFrom(jsonStr, sectionStart, "{") IN
         IF braceStart = 0 THEN <<>>
         ELSE LET braceEnd == BraceScan(jsonStr, braceStart + 1, 1)
                  sectionJSON == SubSeq(jsonStr, braceStart, braceEnd - 1)
              IN OrderLoop(sectionJSON, UnmarshalKeys(sectionJSON), <<>>, 1)

\* ------------------------------------------------------------------------
\* Inputs: what the configuration source and the probed endpoints answer
\* ------------------------------------------------------------------------

\* {"api": {"alpha": {"urls": ["u1","u2"], "cors": true}}, "ui": {"web": ["u3"]}}
BodyA ==
    <<"{", "api", ":", "{",
        "alpha", ":", "{", "urls", ":", "[", "u1", ",", "u2", "]", ",", "cors", ":", "true", "}",
      "}", ",", "ui", ":", "{", "web", ":", "[", "u3", "]", "}", "}">>

\* {"api": {"beta": {"urls": ["u2"], "cors": false},
\*          "alpha": {"urls": ["u1"], "cors": false}}, "ui": {}}
BodyB ==
    <<"{", "api", ":", "{",
        "beta", ":", "{", "urls", ":", "[", "u2", "]", ",", "cors", ":", "false", "}", ",",
        "alpha", ":", "{", "urls", ":", "[", "u1", "]", ",", "cors", ":", "false", "}",
      "}", ",", "ui", ":", "{", "}", "}">>

\* {"api": {"alpha": {"urls": ["u1"], "cors": true}}, "ui": {"web": ["u1"]}}
\* the same URL declared in an API group and in a UI group
BodyDup ==
    <<"{", "api", ":", "{",
        "alpha", ":", "{", "urls", ":", "[", "u1", "]", ",", "cors", ":", "true", "}",
      "}", ",", "ui", ":", "{", "web", ":", "[", "u1", "]", "}", "}">>

\* BodyA cut after its 12th token: not a JSON text
BodyTruncated == SubSeq(BodyA, 1, 12)

\* what http.Get and io.ReadAll can give updateInstances
Responses ==
    {[err |-> TRUE, StatusCode |-> 0, readErr |-> FALSE, body |-> <<>>],
     [err |-> FALSE, StatusCode |-> 500, readErr |-> FALSE, body |-> BodyA],
     [err |-> FALSE, StatusCode |-> 200, readErr |-> TRUE, body |-> <<>>]}
    \cup {[err |-> FALSE, StatusCode |-> 200, readErr |-> FALSE, body |-> b] :
             b \in {BodyA, BodyB, BodyDup, BodyTruncated}}

\* what client.Get can give checkInstance: a transport error (timeout included)
\* or a completed response with its status code; ms is the elapsed time
Answer200 == [err |-> FALSE, StatusCode |-> 200, ms |-> 100]

ProbeOutcomes ==
    {[err |-> TRUE, StatusCode |-> 0, ms |-> 300],
     Answer200,
     [err |-> FALSE, StatusCode |-> 199, ms |-> 200],
     [err |-> FALSE, StatusCode |-> 299, ms |-> 200],
     [err |-> FALSE, StatusCode |-> 300, ms |-> 200],
     [err |-> FALSE, StatusCode |-> 500, ms |-> 250]}

\* ------------------------------------------------------------------------
\* State
\* ------------------------------------------------------------------------

VARIABLES
    heap,        \* the Instance objects ever allocated, by address 1..Len(heap)
    instances,   \* Monitor.instances: the addresses of the Registry's list
    clients,     \* Monitor.clients: the registered channels
    upd,         \* the task running updateInstances: its position and locals
    chk,         \* the task running checkAll: its position and locals
    probes,      \* the goroutines of the running check cycle, by snapshot position
    bc,          \* the running broadcastUpdate of each caller
    nUpd,        \* updateInstances calls started
    nCycles,     \* checkAll calls started
    appended,    \* history variable: every Check ever appended to each Instance
    applied,     \* history variable: the body the last successful updateInstances applied
    raced,       \* history variable: updateInstances has swapped the list while a probe
                 \* was in flight
    clientsRd,   \* Monitor.clientsMu: the callers holding its read lock
    chans,       \* the channels made by handleSSE, by connection: buffer and closed flag
    sse,         \* the task running handleSSE for each connection
    stream       \* what each handleSSE has written to its response

regVars == <<heap, instances, upd, chk, probes, nUpd, nCycles, appended, applied, raced>>

subVars == <<clients, clientsRd, chans, sse, stream>>

vars == <<regVars, subVars, bc>>

Callers == {"upd", "chk"}

\* the dashboard connections (handleSSE calls) explored
Conns == {1, 2}

UpdIdle == [pc |-> "idle", err |-> FALSE]

ChkIdle == [pc |-> "idle", instances |-> <<>>]

BcIdle == [pc |-> "idle"]

\* NewMonitor
Init ==
    /\ heap = <<>>
    /\ instances = <<>>
    /\ clients = {}
    /\ upd = UpdIdle
    /\ chk = ChkIdle
    /\ probes = <<>>
    /\ bc = [p \in Callers |-> BcIdle]
    /\ nUpd = 0
    /\ nCycles = 0
    /\ appended = <<>>
    /\ applied = <<>>
    /\ raced = FALSE
    /\ clientsRd = {}
    /\ chans = [c \in Conns |-> [buf |-> <<>>, closed |-> FALSE]]
    /\ sse = [c \in Conns |-> [pc |-> "none"]]
    /\ stream = [c \in Conns |-> <<>>]

\* ------------------------------------------------------------------------
\* updateInstances
\* ------------------------------------------------------------------------

\* lines 86-91: existingInstances[inst.URL] = inst, a later entry overwrites
ExistingInstances ==
    LET urls == {heap[instances[i]].URL : i \in DOMAIN instances} IN
    [u \in urls |->
        LET at == {i \in DOMAIN instances : heap[instances[i]].URL = u} IN
        instances[CHOOSE i \in at : \A j \in at : j <= i]]

RECURSIVE ApiWork(_, _, _, _, _)
\* the loop control of lines 97-120: the (group, URL) pairs in the order visited,
\* each with the groupIndex it is visited with; [items, groupIndex]
ApiWork(data, apiOrder, g, groupIndex, acc) ==
    IF g > Len(apiOrder) THEN [items |-> acc, groupIndex |-> groupIndex]
    ELSE LET group == apiOrder[g] IN
         IF group \in DOMAIN data.API
         THEN LET groupDetails == data.API[group] IN
              ApiWork(data, apiOrder, g + 1, groupIndex + 1,
                      acc \o [i \in 1..Len(groupDetails.URLs) |->
                                [section |-> "api", group |-> group,
                                 instanceURL |-> groupDetails.URLs[i],
                                 Cors |-> groupDetails.Cors, groupIndex |-> groupIndex]])
         ELSE ApiWork(data, apiOrder, g + 1, groupIndex, acc)

RECURSIVE UiWork(_, _, _, _, _)
\* the loop control of lines 123-146
UiWork(data, uiOrder, g, groupIndex, acc) ==
    IF g > Len(uiOrder) THEN [items |-> acc, groupIndex |-> groupIndex]
    ELSE LET group == uiOrder[g] IN
         IF group \in DOMAIN data.UI
         THEN LET urls == data.UI[group] IN
              UiWork(data, uiOrder, g + 1, groupIndex + 1,
                     acc \o [i \in 1..Len(urls) |->
                               [section |-> "ui", group |-> group, instanceURL |-> urls[i],
                                Cors |-> FALSE, groupIndex |-> groupIndex]])
         ELSE UiWork(data, uiOrder, g + 1, groupIndex, acc)

\* the UI groups numbered from 0 again
WorkList_UiRestart(data, apiOrder, uiOrder) ==
    LET api == ApiWork(data, apiOrder, 1, 0, <<>>) IN
    UiWork(data, uiOrder, 1, 0, api.items).items

\* lines 94-146 as the sequence of inner-loop iterations
WorkList(data, apiOrder, uiOrder) ==
    LET api == ApiWork(data, apiOrder, 1, 0, <<>>) IN
    UiWork(data, uiOrder, 1, api.groupIndex, api.items).items

\* a reuse that starts the history again
ReuseInstance_Reset(inst, item) ==
    [inst EXCEPT !.Group = item.group, !.GroupOrder = item.groupIndex, !.Cors = item.Cors,
                 !.Checks = <<>>]

\* lines 101-103 and 127-129: an existing Instance is updated in place
ReuseInstance(inst, item) ==
    [inst EXCEPT !.Group = item.group, !.GroupOrder = item.groupIndex, !.Cors = item.Cors]

\* a new Instance that takes the history of an Instance of its URL
NewInstance_Inherit(item) ==
    LET old == {a \in DOMAIN heap : heap[a].URL = item.instanceURL} IN
    [Group |-> item.group, URL |-> item.instanceURL, InstanceType |-> item.section,
     Cors |-> item.Cors, GroupOrder |-> item.groupIndex, Index |-> 0,
     Checks |-> IF old = {} THEN <<>> ELSE heap[CHOOSE a \in old : TRUE].Checks]

\* lines 107-114 and 133-140
NewInstance(item) ==
    [Group |-> item.group, URL |-> item.instanceURL, InstanceType |-> item.section,
     Cors |-> item.Cors, GroupOrder |-> item.groupIndex, Index |-> 0, Checks |-> <<>>]

\* the call: the task starts http.Get (line 63)
UpdateCall ==
    /\ upd.pc = "idle"
    /\ bc["upd"].pc = "idle"
    /\ nUpd < MaxReconciles
    /\ upd' = [pc |-> "fetch", err |-> FALSE]
    /\ nUpd' = nUpd + 1
    /\ UNCHANGED <<heap, instances, chk, probes, nCycles, appended, applied, raced>>
    /\ UNCHANGED <<subVars, bc>>

\* the status code is not looked at
FetchFails_NoStatus(resp) ==
    \/ resp.err
    \/ resp.readErr
    \/ ~UnmarshalInstancesJSON(resp.body).ok

\* lines 63-81: the four error returns
FetchFails(resp) ==
    \/ resp.err
    \/ resp.StatusCode # 200
    \/ resp.readErr
    \/ ~UnmarshalInstancesJSON(resp.body).ok

\* lines 63-94: http.Get returns; the body is read and parsed, the order extracted,
\* the map of the existing instances built under m.mu.RLock
UpdateFetch(resp) ==
    /\ upd.pc = "fetch"
    /\ IF FetchFails(resp)
       THEN upd' = [pc |-> "idle", err |-> TRUE, resp |-> resp]
       ELSE LET data == UnmarshalInstancesJSON(resp.body)
                apiOrder == extractOrderFromJSON(resp.body, "api")
                uiOrder == extractOrderFromJSON(resp.body, "ui")
            IN upd' = [pc |-> "merge", err |-> FALSE, resp |-> resp, data |-> data,
                       apiOrder |-> apiOrder, uiOrder |-> uiOrder,
                       work |-> WorkList(data, apiOrder, uiOrder), k |-> 1,
                       existingInstances |-> ExistingInstances,
                       updatedInstances |-> <<>>]
    /\ UNCHANGED <<heap, instances, chk, probes, nUpd, nCycles, appended, applied, raced>>
    /\ UNCHANGED <<subVars, bc>>

\* one iteration of an inner loop, lines 100-116 or 126-142
UpdateMerge ==
    /\ upd.pc = "merge"
    /\ upd.k <= Len(upd.work)
    /\ LET item == upd.work[upd.k]
           instanceURL == item.instanceURL
       IN IF instanceURL \in DOMAIN upd.existingInstances
          THEN LET existing == upd.existingInstances[instanceURL] IN
               /\ heap' = [heap EXCEPT ![existing] = ReuseInstance(heap[existing], item)]
               /\ upd' = [upd EXCEPT
                            !.updatedInstances = Append(@, existing),
                            !.existingInstances =
                                [u \in (DOMAIN @) \ {instanceURL} |-> @[u]],
                            !.k = @ + 1]
               /\ UNCHANGED appended
          ELSE /\ heap' = Append(heap, NewInstance(item))
               /\ appended' = Append(appended, <<>>)
               /\ upd' = [upd EXCEPT !.updatedInstances = Append(@, Len(heap) + 1),
                                     !.k = @ + 1]
    /\ UNCHANGED <<instances, chk, probes, nUpd, nCycles, applied, raced>>
    /\ UNCHANGED <<subVars, bc>>

\* inst.Index = i, the 0-based position
AssignIndex_ZeroBased(updatedInstances) ==
    [a \in DOMAIN heap |->
        LET at == {i \in DOMAIN updatedInstances : updatedInstances[i] = a} IN
        IF at = {} THEN heap[a]
        ELSE [heap[a] EXCEPT !.Index = (CHOOSE i \in at : \A j \in at : j <= i) - 1]]

\* lines 156-158: inst.Index = i + 1 for every entry of the new list
AssignIndex(updatedInstances) ==
    [a \in DOMAIN heap |->
        LET at == {i \in DOMAIN updatedInstances : updatedInstances[i] = a} IN
        IF at = {} THEN heap[a]
        ELSE [heap[a] EXCEPT !.Index = CHOOSE i \in at : \A j \in at : j <= i]]

\* line 148
AddedCount ==
    Len(upd.updatedInstances) - (Len(instances) - Cardinality(DOMAIN upd.existingInstances))

\* line 149
RemovedCount == Cardinality(DOMAIN upd.existingInstances)

\* lines 148-166: the counts, the swap of the list under m.mu.Lock, and the
\* decision to broadcast
UpdateCommit ==
    /\ upd.pc = "merge"
    /\ upd.k > Len(upd.work)
    /\ heap' = AssignIndex(upd.updatedInstances)
    /\ instances' = upd.updatedInstances
    /\ applied' = upd.resp.body
    /\ raced' = (raced \/ \E i \in DOMAIN probes : probes[i].pc = "inflight")
    /\ IF AddedCount > 0 \/ RemovedCount > 0
       THEN /\ upd' = [pc |-> "bcast", err |-> FALSE]
            /\ bc' = [bc EXCEPT !["upd"] = [pc |-> "data"]]
       ELSE /\ upd' = UpdIdle
            /\ UNCHANGED bc
    /\ UNCHANGED <<chk, probes, nUpd, nCycles, appended>>
    /\ UNCHANGED subVars

\* ------------------------------------------------------------------------
\* checkAll and checkInstance
\* ------------------------------------------------------------------------

\* lines 283-288; the URL and the suffix appended to it
CheckURL(instance) ==
    IF instance.InstanceType = "api"
    THEN <<instance.URL, "/search/?s=kanye">>
    ELSE <<instance.URL>>

\* lines 259-273 and 281-298: the snapshot of m.instances under m.mu.RLock and one
\* goroutine per entry, which takes its start time and sends its request (it reads
\* only URL and InstanceType, which are never written after the allocation); the
\* clock is the number of the check cycle
CheckAllStart ==
    /\ chk.pc = "idle"
    /\ bc["chk"].pc = "idle"
    /\ nCycles < MaxCycles
    /\ chk' = [pc |-> "probing", instances |-> instances]
    /\ probes' = [i \in DOMAIN instances |->
                    [pc |-> "inflight", start |-> nCycles + 1,
                     checkURL |-> CheckURL(heap[instances[i]])]]
    /\ nCycles' = nCycles + 1
    /\ UNCHANGED <<heap, instances, upd, nUpd, appended, applied, raced>>
    /\ UNCHANGED <<subVars, bc>>

\* a response counts as a success up to status 300
MakeCheck_Upto300(start, out) ==
    IF out.err
    THEN [Timestamp |-> start, StatusCode |-> 0, ResponseTime |-> out.ms,
          Success |-> FALSE, Error |-> "error"]
    ELSE [Timestamp |-> start, StatusCode |-> out.StatusCode, ResponseTime |-> out.ms,
          Success |-> (out.StatusCode >= 200 /\ out.StatusCode <= 300), Error |-> ""]

\* lines 294-308
MakeCheck(start, out) ==
    IF out.err
    THEN [Timestamp |-> start, StatusCode |-> 0, ResponseTime |-> out.ms,
          Success |-> FALSE, Error |-> "error"]
    ELSE [Timestamp |-> start, StatusCode |-> out.StatusCode, ResponseTime |-> out.ms,
          Success |-> (out.StatusCode >= 200 /\ out.StatusCode < 300), Error |-> ""]

\* the append without the cut of line 313
AppendCheck_NoCut(Checks, check) == Append(Checks, check)

\* lines 311-314
AppendCheck(Checks, check) ==
    LET all == Append(Checks, check) IN
    IF Len(all) > MaxCheckHistory
    THEN SubSeq(all, Len(all) - MaxCheckHistory + 1, Len(all))
    ELSE all

\* the goroutine i takes the entry i of m.instances as it is when it appends
inst_Current(i) == IF i \in DOMAIN instances THEN instances[i] ELSE chk.instances[i]

\* lines 266-271: the goroutine i is handed the entry i of the snapshot
inst(i) == chk.instances[i]

\* lines 298-315: the request returns with out and the Check is appended under
\* instance.mu; the goroutine keeps what the request returned; late is not in the
\* program, it remembers that the Instance was out of m.instances at the append
ProbeRecv(i, out) ==
    /\ chk.pc = "probing"
    /\ probes[i].pc = "inflight"
    /\ LET instance == inst(i)
           check == MakeCheck(probes[i].start, out)
       IN /\ heap' = [heap EXCEPT ![instance].Checks = AppendCheck(@, check)]
          /\ appended' = [appended EXCEPT ![instance] = Append(@, check)]
    /\ probes' = [probes EXCEPT ![i] = [pc |-> "done", out |-> out,
                                        late |-> chk.instances[i] \notin Range(instances)]]
    /\ UNCHANGED <<instances, upd, chk, nUpd, nCycles, applied, raced>>
    /\ UNCHANGED <<subVars, bc>>

\* a wg.Wait that returns at once
WaitReturns_NoWait == TRUE

\* line 274: wg.Wait returns when every goroutine of the cycle has called wg.Done
WaitReturns == \A i \in DOMAIN probes : probes[i].pc = "done"

\* lines 274-277: wg.Wait returns and broadcastUpdate is called
CheckAllWait ==
    /\ chk.pc = "probing"
    /\ WaitReturns
    /\ chk' = [pc |-> "bcast", instances |-> <<>>]
    /\ probes' = <<>>
    /\ bc' = [bc EXCEPT !["chk"] = [pc |-> "data"]]
    /\ UNCHANGED <<heap, instances, upd, nUpd, nCycles, appended, applied, raced>>
    /\ UNCHANGED subVars

\* ------------------------------------------------------------------------
\* Snapshots: GetInstancesData, GetStatsData
\* ------------------------------------------------------------------------

RECURSIVE Successful(_, _)
\* the loop of lines 459-464, from index i on
Successful(checks, i) ==
    IF i > Len(checks) THEN 0
    ELSE (IF checks[i].Success THEN 1 ELSE 0) + Successful(checks, i + 1)

\* ---- float64: a finite value that is not negative is mant * 2^exp with a mantissa
\* of Precision bits whose first bit is 1, kept as hi * 2^27 + lo; zero has hi = lo = 0.
\* A conversion, a division and a multiplication give the exact result rounded to
\* the nearest value, ties to the even mantissa. The program's values stay far from
\* overflow and underflow.

\* the bits of the mantissa of a float64
Precision == 53

Zero == [hi |-> 0, lo |-> 0, exp |-> 0]

\* the w binary digits of a natural number below 2^w, first the highest
Bits(k, w) == [j \in 1..w |-> (k \div 2^(w - j)) % 2]

RECURSIVE Val(_)
\* the natural number of a sequence of binary digits
Val(bits) ==
    IF bits = <<>> THEN 0
    ELSE IF Len(bits) > 14
         THEN Val(SubSeq(bits, 1, Len(bits) - 14)) * 2^14
              + Val(SubSeq(bits, Len(bits) - 13, Len(bits)))
         ELSE 2 * Val(SubSeq(bits, 1, Len(bits) - 1)) + bits[Len(bits)]

Zeros(n) == [k \in 1..n |-> 0]

\* the mantissa of a value that is not zero, as binary digits
Mant(x) == Bits(x.hi, Precision - 27) \o Bits(x.lo, 27)

Pack(bits, exp) ==
    [hi |-> Val(SubSeq(bits, 1, Precision - 27)),
     lo |-> Val(SubSeq(bits, Precision - 26, Precision)),
     exp |-> exp]

\* binary digits without leading zeros
Strip(bits) ==
    IF \A k \in DOMAIN bits : bits[k] = 0 THEN <<>>
    ELSE SubSeq(bits, CHOOSE k \in DOMAIN bits :
                         bits[k] = 1 /\ \A j \in 1..(k - 1) : bits[j] = 0,
                Len(bits))

\* the next float64 above x
Inc(x) ==
    IF x.lo + 1 < 2^27 THEN [x EXCEPT !.lo = @ + 1]
    ELSE IF x.hi + 1 < 2^(Precision - 27) THEN [x EXCEPT !.hi = @ + 1, !.lo = 0]
    ELSE [hi |-> 2^(Precision - 28), lo |-> 0, exp |-> x.exp + 1]

\* the float64 nearest to bits * 2^exp, or to a value between that and the next
\* digit sequence when sticky holds; bits has no leading zero
RoundBits(bits, exp, sticky) ==
    LET n == Len(bits) IN
    IF n = 0 THEN Zero
    ELSE IF n <= Precision
         THEN Pack(bits \o Zeros(Precision - n), exp - (Precision - n))
         ELSE LET rest == sticky \/ \E k \in (Precision + 2)..n : bits[k] = 1
                  up == bits[Precision + 1] = 1 /\ (rest \/ bits[Precision] = 1)
                  down == Pack(SubSeq(bits, 1, Precision), exp + n - Precision)
              IN IF up THEN Inc(down) ELSE down

\* the conversion float64(k) of an int with 0 <= k < 2^27
Float64(k) == RoundBits(Strip(Bits(k, 27)), 0, FALSE)

\* binary digits as digits of 11 bits, first the highest
Limbs(bits) ==
    LET n == (Len(bits) + 10) \div 11
        padded == Zeros(11 * n - Len(bits)) \o bits
    IN [k \in 1..n |-> Val(SubSeq(padded, 11 * (k - 1) + 1, 11 * k))]

\* digits of 11 bits as binary digits
LimbBits(limbs) ==
    [j \in 1..(11 * Len(limbs)) |->
        (limbs[((j - 1) \div 11) + 1] \div 2^(10 - ((j - 1) % 11))) % 2]

RECURSIVE DivLoop(_, _, _, _, _)
\* the long division of digits of 11 bits by d, from digit k on, with the remainder r
DivLoop(limbs, d, k, r, q) ==
    IF k > Len(limbs) THEN [q |-> q, r |-> r]
    ELSE DivLoop(limbs, d, k + 1, (2048 * r + limbs[k]) % d,
                 Append(q, (2048 * r + limbs[k]) \div d))

\* x / float64(d) for an int d with 0 < d < 2^11: the quotient of the mantissa with
\* 13 more digits has the digits that the rounding needs
Quo(x, d) ==
    IF x = Zero THEN Zero
    ELSE LET res == DivLoop(Limbs(Mant(x) \o Zeros(13)), d, 1, 0, <<>>)
         IN RoundBits(Strip(LimbBits(res.q)), x.exp - 13, res.r # 0)

RECURSIVE MulLoop(_, _, _, _, _)
\* digits of 11 bits times c, from digit k down, with a carry
MulLoop(limbs, c, k, carry, out) ==
    IF k = 0 THEN <<carry>> \o out
    ELSE MulLoop(limbs, c, k - 1, (limbs[k] * c + carry) \div 2048,
                 <<(limbs[k] * c + carry) % 2048>> \o out)

\* x * c for an int constant c with 0 < c < 2^11
Mul(x, c) ==
    IF x = Zero THEN Zero
    ELSE LET limbs == Limbs(Mant(x))
         IN RoundBits(Strip(LimbBits(MulLoop(limbs, c, Len(limbs), 0, <<>>))), x.exp, FALSE)

\* x <= y
LessEq(x, y) ==
    \/ x = Zero
    \/ /\ y # Zero
       /\ \/ x.exp < y.exp
          \/ x.exp = y.exp /\ x.hi < y.hi
          \/ x.exp = y.exp /\ x.hi = y.hi /\ x.lo <= y.lo

\* line 466 for every length of a history and every number of successful checks in
\* it: the quotient is rounded, and then its product with 100
Uptimes ==
    [len \in 1..(MaxCheckHistory + MaxCycles) |->
        [successful \in 0..len |-> Mul(Quo(Float64(successful), len), 100)]]

\* lines 454-467
calculateUptime(checks) ==
    IF Len(checks) = 0 THEN Zero
    ELSE Uptimes[Len(checks)][Successful(checks, 1)]

RECURSIVE Total(_, _)
\* the loop of lines 474-477, from index i on
Total(checks, i) ==
    IF i > Len(checks) THEN 0 ELSE checks[i].ResponseTime + Total(checks, i + 1)

\* lines 469-480: the division of int64 cuts the fraction
calculateAvgResponseTime(checks) ==
    IF Len(checks) = 0 THEN 0 ELSE Total(checks, 1) \div Len(checks)

\* lines 377-404: the view of one Instance
InstanceData(instance) ==
    [Group |-> instance.Group, URL |-> instance.URL,
     InstanceType |-> instance.InstanceType, Cors |-> instance.Cors,
     GroupOrder |-> instance.GroupOrder, Index |-> instance.Index,
     Checks |-> instance.Checks,
     Uptime |-> calculateUptime(instance.Checks),
     AvgResponseTime |-> calculateAvgResponseTime(instance.Checks),
     LastCheck |-> IF Len(instance.Checks) > 0
                   THEN <<instance.Checks[Len(instance.Checks)]>> ELSE <<>>]

\* lines 358-407
GetInstancesData == [i \in DOMAIN instances |-> InstanceData(heap[instances[i]])]

\* lines 409-436; avg_uptime, the mean of the uptimes (lines 422 and 426-429), is
\* left out of the record
GetStatsData ==
    [total_instances |-> Len(instances),
     up_instances |->
        Cardinality({i \in DOMAIN instances :
            LET Checks == heap[instances[i]].Checks IN
            Len(Checks) > 0 /\ Checks[Len(Checks)].Success})]

\* ------------------------------------------------------------------------
\* broadcastUpdate, for each of its two callers
\* ------------------------------------------------------------------------

\* the caller's frame once broadcastUpdate has returned
Return(p) ==
    /\ bc' = [bc EXCEPT ![p] = BcIdle]
    /\ IF p = "upd" THEN upd' = UpdIdle /\ UNCHANGED chk
                    ELSE chk' = ChkIdle /\ UNCHANGED upd

\* lines 328-332 and 609-613: the payload
Update(data, stats) == [instances |-> data, stats |-> stats]

\* the connections whose channel UnregisterClient has deleted
Unregistered == {c \in Conns : sse[c].pc \in {"unregister", "closed"}}

\* line 325; gone is not in the program, it remembers the connections that were
\* unregistered before the call
BroadcastData(p) ==
    /\ bc[p].pc = "data"
    /\ bc' = [bc EXCEPT ![p] = [pc |-> "stats", data |-> GetInstancesData,
                                gone |-> Unregistered]]
    /\ UNCHANGED <<regVars, subVars>>

\* lines 326-338
BroadcastStats(p) ==
    /\ bc[p].pc = "stats"
    /\ bc' = [bc EXCEPT ![p] = [pc |-> "count", gone |-> bc[p].gone,
                                update |-> Update(bc[p].data, GetStatsData)]]
    /\ UNCHANGED <<regVars, subVars>>

\* lines 340-344 with no client registered: nothing is sent
BroadcastNoClient(p) ==
    /\ bc[p].pc = "count"
    /\ clients = {}
    /\ Return(p)
    /\ UNCHANGED <<heap, instances, probes, nUpd, nCycles, appended, applied, raced>>
    /\ UNCHANGED subVars

\* ------------------------------------------------------------------------
\* The Registry's tasks: reconciliation and check cycles, no dashboard connected
\* ------------------------------------------------------------------------

Next ==
    \/ UpdateCall
    \/ \E resp \in Responses : UpdateFetch(resp)
    \/ UpdateMerge
    \/ UpdateCommit
    \/ CheckAllStart
    \/ \E i \in DOMAIN probes : ProbeRecv(i, Answer200)
    \/ CheckAllWait
    \/ \E p \in Callers : BroadcastData(p)
    \/ \E p \in Callers : BroadcastStats(p)
    \/ \E p \in Callers : BroadcastNoClient(p)

Spec == Init /\ [][Next]_vars

\* ------------------------------------------------------------------------
\* broadcastUpdate with clients registered, RegisterClient, UnregisterClient
\* and handleSSE
\* ------------------------------------------------------------------------

\* lines 340-344 with a client registered: clientCount > 0
BroadcastCount(p) ==
    /\ bc[p].pc = "count"
    /\ clients # {}
    /\ bc' = [bc EXCEPT ![p].pc = "lock"]
    /\ UNCHANGED <<regVars, subVars>>

\* lines 345-346: the read lock is taken (no writer keeps clientsMu over a step of
\* this model) and the range over m.clients starts with the clients of that moment
BroadcastRLock(p) ==
    /\ bc[p].pc = "lock"
    /\ bc' = [bc EXCEPT ![p] = [pc |-> "send", gone |-> bc[p].gone, update |-> bc[p].update,
                                todo |-> clients]]
    /\ clientsRd' = clientsRd \cup {p}
    /\ UNCHANGED <<regVars, clients, chans, sse, stream>>

\* a send that waits for room in the channel
SendReady_Blocking(ch) == Len(ch.buf) < InboxCap

\* lines 347-351: a select with a default case is ready whatever the channel holds
SendReady(ch) == TRUE

\* lines 347-351: the channel after the select
TrySend(ch, jsonData) ==
    IF Len(ch.buf) < InboxCap THEN [ch EXCEPT !.buf = Append(@, jsonData)] ELSE ch

\* lines 346-352: one iteration of the range, in the order Go happens to take; a
\* send on a closed channel is a panic
BroadcastSend(p, client) ==
    /\ bc[p].pc = "send"
    /\ client \in bc[p].todo
    /\ SendReady(chans[client])
    /\ IF chans[client].closed
       THEN /\ bc' = [bc EXCEPT ![p] = [pc |-> "panic"]]
            /\ UNCHANGED chans
       ELSE /\ bc' = [bc EXCEPT ![p].todo = @ \ {client}]
            /\ chans' = [chans EXCEPT ![client] = TrySend(@, bc[p].update)]
    /\ UNCHANGED <<regVars, clients, clientsRd, sse, stream>>

\* lines 352-356: the range is over, the read lock is released
BroadcastRUnlock(p) ==
    /\ bc[p].pc = "send"
    /\ bc[p].todo = {}
    /\ clientsRd' = clientsRd \ {p}
    /\ Return(p)
    /\ UNCHANGED <<heap, instances, probes, nUpd, nCycles, appended, applied, raced>>
    /\ UNCHANGED <<clients, chans, sse, stream>>

\* a clientsMu.Lock that does not wait for the readers
LockReady_NoWait == TRUE

\* lines 439 and 446: clientsMu.Lock is granted when no broadcast holds the read lock
LockReady == clientsRd = {}

\* lines 439-441: clientsMu.Lock waits for the readers
RegisterClient(client) ==
    /\ LockReady
    /\ clients' = clients \cup {client}

\* an UnregisterClient that leaves the channel in m.clients
Deleted_Kept(set, client) == set

\* line 447
Deleted(set, client) == set \ {client}

\* lines 603-605: the channel is made and registered; the connections are taken in
\* the order of their numbers
SSEConnect(c) ==
    /\ sse[c].pc = "none"
    /\ \A d \in Conns : d < c => sse[d].pc # "none"
    /\ chans' = [chans EXCEPT ![c] = [buf |-> <<>>, closed |-> FALSE]]
    /\ RegisterClient(c)
    /\ sse' = [sse EXCEPT ![c] = [pc |-> "registered"]]
    /\ UNCHANGED <<regVars, clientsRd, stream, bc>>

\* line 607; queued is not in the program, it remembers how many payloads were in
\* the channel at that moment
SSEData(c) ==
    /\ sse[c].pc = "registered"
    /\ sse' = [sse EXCEPT ![c] = [pc |-> "data", data |-> GetInstancesData,
                                  queued |-> Len(chans[c].buf)]]
    /\ UNCHANGED <<regVars, clients, clientsRd, chans, stream, bc>>

\* lines 608-616: the initial payload is written
SSEInitial(c) ==
    /\ sse[c].pc = "data"
    /\ stream' = [stream EXCEPT ![c] =
                    Append(@, [src |-> "initial",
                               update |-> Update(sse[c].data, GetStatsData)])]
    /\ sse' = [sse EXCEPT ![c] = [pc |-> "stream", queued |-> sse[c].queued]]
    /\ UNCHANGED <<regVars, clients, clientsRd, chans, bc>>

\* a handler that reads its channel as soon as it is registered
Receiving_Early(c) == sse[c].pc \in {"registered", "stream"}

\* lines 621-622: the handler is in its loop
Receiving(c) == sse[c].pc = "stream"

\* lines 625-627: a payload is taken from the channel and written
SSERecv(c) ==
    /\ Receiving(c)
    /\ chans[c].buf # <<>>
    /\ stream' = [stream EXCEPT ![c] =
                    Append(@, [src |-> "message", update |-> Head(chans[c].buf)])]
    /\ chans' = [chans EXCEPT ![c].buf = Tail(@)]
    /\ UNCHANGED <<regVars, clients, clientsRd, sse, bc>>

\* lines 623-624 and 446-449: the request is over, the handler returns and the
\* deferred UnregisterClient deletes the channel under clientsMu.Lock
SSEDone(c) ==
    /\ sse[c].pc = "stream"
    /\ LockReady
    /\ clients' = Deleted(clients, c)
    /\ sse' = [sse EXCEPT ![c] = [pc |-> "unregister"]]
    /\ UNCHANGED <<regVars, clientsRd, chans, stream, bc>>

\* line 450: the channel is closed after the lock is released
SSEClose(c) ==
    /\ sse[c].pc = "unregister"
    /\ chans' = [chans EXCEPT ![c].closed = TRUE]
    /\ sse' = [sse EXCEPT ![c] = [pc |-> "closed"]]
    /\ UNCHANGED <<regVars, clients, clientsRd, stream, bc>>

\* ------------------------------------------------------------------------
\* The dashboard connections and the check cycles of a Registry that
\* updateInstances has filled once; the keepalive lines of handleSSE (lines
\* 628-630) carry no payload and are left out
\* ------------------------------------------------------------------------

\* {"api": {"alpha": {"urls": ["u1"], "cors": true}}, "ui": {}}
BodyOne ==
    <<"{", "api", ":", "{",
        "alpha", ":", "{", "urls", ":", "[", "u1", "]", ",", "cors", ":", "true", "}",
      "}", ",", "ui", ":", "{", "}", "}">>

\* the state once Initialize has applied BodyOne to the new Monitor
InitServing ==
    LET data == UnmarshalInstancesJSON(BodyOne)
        work == WorkList(data, extractOrderFromJSON(BodyOne, "api"),
                         extractOrderFromJSON(BodyOne, "ui"))
    IN
    /\ heap = [i \in DOMAIN work |-> [NewInstance(work[i]) EXCEPT !.Index = i]]
    /\ instances = [i \in DOMAIN work |-> i]
    /\ clients = {}
    /\ upd = UpdIdle
    /\ chk = ChkIdle
    /\ probes = <<>>
    /\ bc = [p \in Callers |-> BcIdle]
    /\ nUpd = 1
    /\ nCycles = 0
    /\ appended = [i \in DOMAIN work |-> <<>>]
    /\ applied = BodyOne
    /\ raced = FALSE
    /\ clientsRd = {}
    /\ chans = [c \in Conns |-> [buf |-> <<>>, closed |-> FALSE]]
    /\ sse = [c \in Conns |-> [pc |-> "none"]]
    /\ stream = [c \in Conns |-> <<>>]

NextServing ==
    \/ CheckAllStart
    \/ \E i \in DOMAIN probes : ProbeRecv(i, Answer200)
    \/ CheckAllWait
    \/ \E p \in Callers : BroadcastData(p)
    \/ \E p \in Callers : BroadcastStats(p)
    \/ \E p \in Callers : BroadcastNoClient(p)
    \/ \E p \in Callers : BroadcastCount(p)
    \/ \E p \in Callers : BroadcastRLock(p)
    \/ \E p \in Callers : \E c \in Conns : BroadcastSend(p, c)
    \/ \E p \in Callers : BroadcastRUnlock(p)
    \/ \E c \in Conns : SSEConnect(c)
    \/ \E c \in Conns : SSEData(c)
    \/ \E c \in Conns : SSEInitial(c)
    \/ \E c \in Conns : SSERecv(c)
    \/ \E c \in Conns : SSEDone(c)
    \/ \E c \in Conns : SSEClose(c)

SpecServing == InitServing /\ [][NextServing]_vars

\* ------------------------------------------------------------------------
\* Initialize and then Start: one task calls updateInstances and checkAll, one
\* after the other; no dashboard connected
\* ------------------------------------------------------------------------

\* every tick is handled by a goroutine of its own
AtSelect_Go == TRUE

\* lines 238 and 245-254: the calls of Start are made one after the other by one
\* goroutine, which is at its select, or before its first call, when the call it made
\* last has returned
AtSelect == upd.pc = "idle" /\ chk.pc = "idle"

\* lines 49-51 and 249-253: updateInstances is called by Initialize on the new
\* Monitor, and by the loop of Start when no checkAll is running
StartUpdate ==
    /\ AtSelect
    /\ nUpd = 0 \/ nCycles >= 1
    /\ UpdateCall

\* lines 238 and 247-248: checkAll is called by Start, first of all and then by its
\* loop when no updateInstances is running
StartCheck ==
    /\ AtSelect
    /\ nUpd >= 1
    /\ CheckAllStart

NextStart ==
    \/ StartUpdate
    \/ \E resp \in Responses : UpdateFetch(resp)
    \/ UpdateMerge
    \/ UpdateCommit
    \/ StartCheck
    \/ \E i \in DOMAIN probes : ProbeRecv(i, Answer200)
    \/ CheckAllWait
    \/ \E p \in Callers : BroadcastData(p)
    \/ \E p \in Callers : BroadcastStats(p)
    \/ \E p \in Callers : BroadcastNoClient(p)

SpecStart == Init /\ [][NextStart]_vars

\* ------------------------------------------------------------------------
\* A check cycle of a Registry of one Instance, with every answer the endpoint
\* can give and every history the Instance can have; no dashboard connected
\* ------------------------------------------------------------------------

NextProbing ==
    \/ CheckAllStart
    \/ \E i \in DOMAIN probes : \E out \in ProbeOutcomes : ProbeRecv(i, out)
    \/ CheckAllWait
    \/ \E p \in Callers : BroadcastData(p)
    \/ \E p \in Callers : BroadcastStats(p)
    \/ \E p \in Callers : BroadcastNoClient(p)

\* the state at the start of the last check cycle explored: the Registry that
\* Initialize has filled with BodyOne, its Instance with the history that earlier
\* cycles have left
InitProbing ==
    LET data == UnmarshalInstancesJSON(BodyOne)
        work == WorkList(data, extractOrderFromJSON(BodyOne, "api"),
                         extractOrderFromJSON(BodyOne, "ui"))
    IN
    /\ \E n \in 0..MaxCheckHistory : \E outs \in [1..n -> ProbeOutcomes] :
          LET Checks == [k \in 1..n |-> MakeCheck(MaxCycles - 1 - n + k, outs[k])] IN
          /\ heap = <<[NewInstance(work[1]) EXCEPT !.Index = 1, !.Checks = Checks]>>
          /\ appended = <<Checks>>
    /\ instances = <<1>>
    /\ clients = {}
    /\ upd = UpdIdle
    /\ chk = ChkIdle
    /\ probes = <<>>
    /\ bc = [p \in Callers |-> BcIdle]
    /\ nUpd = 1
    /\ nCycles = MaxCycles - 1
    /\ applied = BodyOne
    /\ raced = FALSE
    /\ clientsRd = {}
    /\ chans = [c \in Conns |-> [buf |-> <<>>, closed |-> FALSE]]
    /\ sse = [c \in Conns |-> [pc |-> "none"]]
    /\ stream = [c \in Conns |-> <<>>]

SpecProbing == InitProbing /\ [][NextProbing]_vars

\* ------------------------------------------------------------------------
\* One updateInstances on an empty Registry (every call before it has failed), for
\* a family of well-formed configurations
\* ------------------------------------------------------------------------

RECURSIVE Joined(_)
\* the token sequences of parts with a "," between them
Joined(parts) ==
    IF parts = <<>> THEN <<>>
    ELSE IF Len(parts) = 1 THEN parts[1]
    ELSE parts[1] \o <<",">> \o Joined(Tail(parts))

\* "name": {"urls": ["url"], "cors": true}
ApiGroupText(name, url) ==
    <<name, ":", "{", "urls", ":", "[", url, "]", ",", "cors", ":", "true", "}">>

\* {"api": {the groups}, "ui": {the groups}}; a group is <<name, url>>
BodyOf(apiGroups, uiGroups) ==
    <<"{", "api", ":", "{">>
    \o Joined([i \in DOMAIN apiGroups |-> ApiGroupText(apiGroups[i][1], apiGroups[i][2])])
    \o <<"}", ",", "ui", ":", "{">>
    \o Joined([i \in DOMAIN uiGroups |-> <<uiGroups[i][1], ":", "[", uiGroups[i][2], "]">>])
    \o <<"}", "}">>

\* the sequences of at most three groups with different names
GroupSeqs(names, urls) ==
    {g \in UNION {[1..n -> names \X urls] : n \in 0..3} :
        \A i, j \in DOMAIN g : i # j => g[i][1] # g[j][1]}

\* API groups named alpha, beta, gamma or ui, each with the URL u1 or the URL beta;
\* no UI group or the UI group web
OrderBodies ==
    {BodyOf(a, u) : a \in GroupSeqs({"alpha", "beta", "gamma", "ui"}, {"u1", "beta"}),
                    u \in {<<>>, <<<<"web", "u2">>>>}}

OrderResponses ==
    {[err |-> FALSE, StatusCode |-> 200, readErr |-> FALSE, body |-> b] : b \in OrderBodies}

InitOrder ==
    /\ heap = <<>>
    /\ instances = <<>>
    /\ clients = {}
    /\ upd = [pc |-> "idle", err |-> TRUE]
    /\ chk = ChkIdle
    /\ probes = <<>>
    /\ bc = [p \in Callers |-> BcIdle]
    /\ nUpd = MaxReconciles - 1
    /\ nCycles = 0
    /\ appended = <<>>
    /\ applied = <<>>
    /\ raced = FALSE
    /\ clientsRd = {}
    /\ chans = [c \in Conns |-> [buf |-> <<>>, closed |-> FALSE]]
    /\ sse = [c \in Conns |-> [pc |-> "none"]]
    /\ stream = [c \in Conns |-> <<>>]

NextOrder ==
    \/ UpdateCall
    \/ \E resp \in OrderResponses : UpdateFetch(resp)
    \/ UpdateMerge
    \/ UpdateCommit
    \/ \E p \in Callers : BroadcastData(p)
    \/ \E p \in Callers : BroadcastStats(p)
    \/ \E p \in Callers : BroadcastNoClient(p)

SpecOrder == InitOrder /\ [][NextOrder]_vars

\* ------------------------------------------------------------------------
\* Initialize and then Start, with a request GET /api/instances served
\* meanwhile: the locks that GetInstancesData takes, one after the other
\* ------------------------------------------------------------------------

\* m.mu is never released by a handler that took it for reading
MuRLocked_Kept == TRUE

\* a handler holds m.mu for reading, lines 359-360
MuRLocked == \E c \in Conns : sse[c].pc \in {"rlocked", "held"}

\* a handler holds the mu of the Instance a for reading, lines 378-404
InstanceRLocked(a) == \E c \in Conns : sse[c].pc = "held" /\ instances[sse[c].i] = a

\* a goroutine of checkAll with a Check to append holds the mu of its Instance
\* from the request on
ProbeLocked_FromRequest(i) == probes[i].pc \in {"inflight", "locked"}

\* the goroutine i of checkAll holds the mu of its Instance for writing, lines 310-315
ProbeLocked(i) == probes[i].pc = "locked"

\* a goroutine holds the mu of the Instance a for writing
InstanceLocked(a) == \E i \in DOMAIN probes : ProbeLocked(i) /\ chk.instances[i] = a

\* the fields of an Instance that updateInstances writes when it reuses it
Labels(instance) ==
    [Group |-> instance.Group, GroupOrder |-> instance.GroupOrder, Cors |-> instance.Cors]

\* lines 533 and 359-376: the handler calls GetInstancesData, which takes m.mu for
\* reading; no writer holds m.mu between two steps
ReadRLock(c) ==
    /\ sse[c].pc = "none"
    /\ nUpd >= 1
    /\ sse' = [sse EXCEPT ![c] = [pc |-> "rlocked", i |-> 1, data |-> <<>>]]
    /\ UNCHANGED <<regVars, bc, clients, clientsRd, chans, stream>>

\* line 378: instance.mu.RLock, which waits for the goroutine that holds the mu for
\* writing; before is not in the program, it remembers the fields at the time of the
\* lock
ReadInstanceRLock(c) ==
    /\ sse[c].pc = "rlocked"
    /\ sse[c].i <= Len(instances)
    /\ ~InstanceLocked(instances[sse[c].i])
    /\ sse' = [sse EXCEPT ![c] = [pc |-> "held", i |-> @.i, data |-> @.data,
                                  before |-> Labels(heap[instances[@.i]])]]
    /\ UNCHANGED <<regVars, bc, clients, clientsRd, chans, stream>>

\* lines 380-404: the view and instance.mu.RUnlock. A field that updateInstances has
\* written since the lock was taken is read before or after that write, each field
\* by itself
ReadInstance(c) ==
    /\ sse[c].pc = "held"
    /\ LET instance == heap[instances[sse[c].i]] IN
       \E Group \in {sse[c].before.Group, instance.Group} :
       \E GroupOrder \in {sse[c].before.GroupOrder, instance.GroupOrder} :
       \E Cors \in {sse[c].before.Cors, instance.Cors} :
          sse' = [sse EXCEPT ![c] =
                    [pc |-> "rlocked", i |-> @.i + 1,
                     data |-> Append(@.data,
                                [InstanceData(instance) EXCEPT
                                    !.Group = Group, !.GroupOrder = GroupOrder,
                                    !.Cors = Cors])]]
    /\ UNCHANGED <<regVars, bc, clients, clientsRd, chans, stream>>

\* lines 360, 406 and 534: the deferred m.mu.RUnlock, and the handler writes the data
ReadReturn(c) ==
    /\ sse[c].pc = "rlocked"
    /\ sse[c].i > Len(instances)
    /\ sse' = [sse EXCEPT ![c] = [pc |-> "none"]]
    /\ UNCHANGED <<regVars, bc, clients, clientsRd, chans, stream>>

\* line 155: m.mu.Lock waits for the handlers that hold m.mu for reading
StartCommit == ~MuRLocked /\ UpdateCommit

\* lines 298-310: the request returns and the goroutine takes instance.mu.Lock,
\* which waits for the handler that holds the mu for reading
ProbeLock(i, out) ==
    /\ chk.pc = "probing"
    /\ probes[i].pc = "inflight"
    /\ ~InstanceRLocked(chk.instances[i])
    /\ ~InstanceLocked(chk.instances[i])
    /\ probes' = [probes EXCEPT ![i] = [pc |-> "locked", start |-> @.start, out |-> out]]
    /\ UNCHANGED <<heap, instances, upd, chk, nUpd, nCycles, appended, applied, raced>>
    /\ UNCHANGED <<subVars, bc>>

\* lines 311-315: the append under the lock, and instance.mu.Unlock
ProbeUnlock(i) ==
    /\ chk.pc = "probing"
    /\ probes[i].pc = "locked"
    /\ LET instance == chk.instances[i]
           check == MakeCheck(probes[i].start, probes[i].out)
       IN /\ heap' = [heap EXCEPT ![instance].Checks = AppendCheck(@, check)]
          /\ appended' = [appended EXCEPT ![instance] = Append(@, check)]
    /\ probes' = [probes EXCEPT ![i] = [pc |-> "done", out |-> @.out,
                                        late |-> chk.instances[i] \notin Range(instances)]]
    /\ UNCHANGED <<instances, upd, chk, nUpd, nCycles, applied, raced>>
    /\ UNCHANGED <<subVars, bc>>

NextReading ==
    \/ StartUpdate
    \/ \E resp \in Responses : UpdateFetch(resp)
    \/ UpdateMerge
    \/ StartCommit
    \/ StartCheck
    \/ \E i \in DOMAIN probes : ProbeLock(i, Answer200)
    \/ \E i \in DOMAIN probes : ProbeUnlock(i)
    \/ CheckAllWait
    \/ \E p \in Callers : BroadcastData(p)
    \/ \E p \in Callers : BroadcastStats(p)
    \/ \E p \in Callers : BroadcastNoClient(p)
    \/ ReadRLock(1)
    \/ ReadInstanceRLock(1)
    \/ ReadInstance(1)
    \/ ReadReturn(1)

SpecReading == Init /\ [][NextReading]_vars

\* ------------------------------------------------------------------------
\* Start with the dashboard served: the check cycles and the reconciliation
\* of Start, a subscriber of /api/stream on connection 1 and requests
\* GET /api/instances on connection 2, each lock taken where the code takes it
\* ------------------------------------------------------------------------

\* no goroutine of checkAll holds the mu of an Instance for writing
NoInstanceLocked == \A i \in DOMAIN probes : ~ProbeLocked(i)

\* lines 607 and 359-407: GetInstancesData waits for the goroutines that hold the mu
\* of an Instance
LiveSSEData(c) == NoInstanceLocked /\ SSEData(c)

\* lines 608 and 410-424: GetStatsData waits for them too
LiveSSEInitial(c) == NoInstanceLocked /\ SSEInitial(c)

\* {"api": {"alpha": {"urls": ["u2"], "cors": true}}, "ui": {}}
BodyTwo ==
    <<"{", "api", ":", "{",
        "alpha", ":", "{", "urls", ":", "[", "u2", "]", ",", "cors", ":", "true", "}",
      "}", ",", "ui", ":", "{", "}", "}">>

\* what the configuration source answers here: nothing, or a configuration that
\* replaces the endpoint of BodyOne
LiveResponses ==
    {[err |-> TRUE, StatusCode |-> 0, readErr |-> FALSE, body |-> <<>>],
     [err |-> FALSE, StatusCode |-> 200, readErr |-> FALSE, body |-> BodyTwo]}

NextLive ==
    \/ StartUpdate
    \/ \E resp \in LiveResponses : UpdateFetch(resp)
    \/ UpdateMerge
    \/ StartCommit
    \/ StartCheck
    \/ \E i \in DOMAIN probes : ProbeLock(i, Answer200)
    \/ \E i \in DOMAIN probes : ProbeUnlock(i)
    \/ CheckAllWait
    \/ \E p \in Callers : BroadcastData(p)
    \/ \E p \in Callers : BroadcastStats(p)
    \/ \E p \in Callers : BroadcastNoClient(p)
    \/ \E p \in Callers : BroadcastCount(p)
    \/ \E p \in Callers : BroadcastRLock(p)
    \/ \E p \in Callers : BroadcastSend(p, 1)
    \/ \E p \in Callers : BroadcastRUnlock(p)
    \/ SSEConnect(1)
    \/ LiveSSEData(1)
    \/ LiveSSEInitial(1)
    \/ SSERecv(1)
    \/ SSEDone(1)
    \/ SSEClose(1)
    \/ ReadRLock(2)
    \/ ReadInstanceRLock(2)
    \/ ReadInstance(2)
    \/ ReadReturn(2)

\* a goroutine that can run does run, and a response comes for every request of a
\* probe; a goroutine that waits in Lock gets the lock although readers come and go,
\* because a waiting Lock of sync.RWMutex holds back the readers that come later.
\* Nothing is assumed of the ticks, of the configuration source, of the requests
\* that arrive and of the time a connection takes to read or to end
Fairness ==
    /\ SF_vars(\E i \in DOMAIN probes : ProbeLock(i, Answer200))
    /\ WF_vars(\E i \in DOMAIN probes : ProbeUnlock(i))
    /\ WF_vars(CheckAllWait)
    /\ WF_vars(\E p \in Callers : BroadcastData(p))
    /\ WF_vars(\E p \in Callers : BroadcastStats(p))
    /\ WF_vars(\E p \in Callers : BroadcastNoClient(p))
    /\ WF_vars(\E p \in Callers : BroadcastCount(p))
    /\ WF_vars(\E p \in Callers : BroadcastRLock(p))
    /\ WF_vars(\E p \in Callers : BroadcastSend(p, 1))
    /\ WF_vars(\E p \in Callers : BroadcastRUnlock(p))
    /\ WF_vars(UpdateMerge)
    /\ SF_vars(StartCommit)
    /\ SF_vars(ReadInstanceRLock(2))
    /\ WF_vars(ReadInstance(2))
    /\ WF_vars(ReadReturn(2))
    /\ WF_vars(SSEClose(1))

SpecLive == InitServing /\ [][NextLive]_vars /\ Fairness

\* ------------------------------------------------------------------------
\* Initialize and then Start with a configuration that moves a URL from an
\* API group to a UI group and back; no dashboard connected
\* ------------------------------------------------------------------------

\* {"api": {}, "ui": {"web": ["u1"]}}
BodyMoved ==
    <<"{", "api", ":", "{", "}", ",", "ui", ":", "{", "web", ":", "[", "u1", "]", "}", "}">>

\* what the configuration source answers here: u1 in the API group alpha, or u1 in
\* the UI group web
MoveResponses ==
    {[err |-> FALSE, StatusCode |-> 200, readErr |-> FALSE, body |-> b] :
        b \in {BodyOne, BodyMoved}}

NextMove ==
    \/ StartUpdate
    \/ \E resp \in MoveResponses : UpdateFetch(resp)
    \/ UpdateMerge
    \/ UpdateCommit
    \/ StartCheck
    \/ \E i \in DOMAIN probes : ProbeRecv(i, Answer200)
    \/ CheckAllWait
    \/ \E p \in Callers : BroadcastData(p)
    \/ \E p \in Callers : BroadcastStats(p)
    \/ \E p \in Callers : BroadcastNoClient(p)

SpecMove == Init /\ [][NextMove]_vars

\* ------------------------------------------------------------------------
\* What the properties speak of
\* ------------------------------------------------------------------------

RECURSIVE DeclaredIn(_, _, _, _)
\* the (section, group, url) triples of one section in the order of the text
DeclaredIn(section, obj, g, acc) ==
    IF g > Len(obj.keys) THEN acc
    ELSE LET group == obj.keys[g]
             v == obj.m[group]
             urls == IF section = "ui" THEN StrArr(v)
                     ELSE IF "urls" \in DOMAIN v.m THEN StrArr(v.m["urls"]) ELSE <<>>
         IN DeclaredIn(section, obj, g + 1,
                       acc \o [i \in DOMAIN urls |->
                                 [section |-> section, group |-> group, g |-> g,
                                  url |-> urls[i]]])

\* the endpoints a configuration declares: the API groups in the order of the
\* text, then the UI groups in the order of the text
Declared(body) ==
    LET top == ParseJSON(body).v.m
        api == IF "api" \in DOMAIN top THEN DeclaredIn("api", top["api"], 1, <<>>) ELSE <<>>
    IN IF "ui" \in DOMAIN top THEN DeclaredIn("ui", top["ui"], 1, api) ELSE api

ListedURLs(body) == {Declared(body)[i].url : i \in DOMAIN Declared(body)}

Tracked == Range(instances)

TrackedURLs == {heap[a].URL : a \in Tracked}

\* the step in which updateInstances swaps the list
CommitStep == upd.pc = "merge" /\ upd'.pc # "merge"

\* the step in which a probe appends its Check to the Instance at address a
AppendStep(a) ==
    \E i \in DOMAIN probes :
        /\ probes[i].pc = "inflight"
        /\ i \in DOMAIN probes' /\ probes'[i].pc = "done"
        /\ chk.instances[i] = a

Last(sq) == sq[Len(sq)]

\* the last n entries of a sequence
LastN(sq, n) == IF Len(sq) <= n THEN sq ELSE SubSeq(sq, Len(sq) - n + 1, Len(sq))

\* ------------------------------------------------------------------------
\* C1
\* ------------------------------------------------------------------------

\* C1: no history is ever longer than MaxCheckHistory, and an append of a probe leaves
\* the old history followed by the new Check when the history was not full, and the
\* old history without its first entry followed by the new Check when it was full.
C1_BoundedFifoHistory ==
    [][\A a \in DOMAIN heap' :
          /\ Len(heap'[a].Checks) <= MaxCheckHistory
          /\ (a \in DOMAIN heap /\ AppendStep(a)) =>
                LET old == heap[a].Checks
                    new == heap'[a].Checks
                IN /\ Len(new) >= 1
                   /\ Last(new) = Last(appended'[a])
                   /\ Last(new).Timestamp = nCycles
                   /\ IF Len(old) < MaxCheckHistory
                      THEN new = Append(old, Last(new))
                      ELSE new = Append(Tail(old), Last(new))]_vars

\* C1 witness: a full history that has lost its oldest Check and kept the older one
\* before the new one
C1_Witness ==
    \E a \in DOMAIN heap :
        /\ Len(appended[a]) > MaxCheckHistory
        /\ Len(heap[a].Checks) = MaxCheckHistory
        /\ MaxCheckHistory >= 2
        /\ heap[a].Checks[1].Timestamp < heap[a].Checks[2].Timestamp
        /\ heap[a].Checks = Tail(appended[a])

\* ------------------------------------------------------------------------
\* C2
\* ------------------------------------------------------------------------

\* C2: no step of updateInstances changes the history of an Instance, and the swap of
\* the list keeps every tracked Instance whose URL the fetched configuration lists,
\* with its history.
C2_HistoryPreserved ==
    [][(upd' # upd) =>
          /\ \A a \in DOMAIN heap : heap'[a].Checks = heap[a].Checks
          /\ CommitStep =>
                \A a \in Tracked :
                    heap[a].URL \in ListedURLs(upd.resp.body) =>
                        \E j \in DOMAIN instances' :
                            /\ instances'[j] = a
                            /\ heap'[a].Checks = heap[a].Checks]_vars

\* ------------------------------------------------------------------------
\* C3
\* ------------------------------------------------------------------------

\* C3: the swap of the list leaves the tracked URLs equal to the listed URLs; it
\* removes every tracked Instance whose URL is not listed, keeps every tracked
\* Instance whose URL is listed, and the Instances it adds are for exactly the listed
\* URLs that were not tracked.
C3_ExactMembership ==
    [][CommitStep =>
          LET listed == ListedURLs(upd.resp.body)
              new == Range(instances')
              added == new \ Tracked
          IN /\ {heap'[a].URL : a \in new} = listed
             /\ \A a \in Tracked : heap[a].URL \notin listed => a \notin new
             /\ \A a \in Tracked : heap[a].URL \in listed => a \in new
             /\ {heap'[a].URL : a \in added} = listed \ TrackedURLs]_vars

\* ------------------------------------------------------------------------
\* C4
\* ------------------------------------------------------------------------

\* a transport or read failure, a status outside 2xx, or a body that is no JSON text
BadResponse(resp) ==
    \/ resp.err
    \/ resp.readErr
    \/ resp.StatusCode \notin 200..299
    \/ ~ParseJSON(resp.body).ok

\* C4: when the answer of the configuration source is bad, updateInstances returns an
\* error and the list, every Instance, the subscribers and the broadcasts are as
\* before; and a check cycle that starts probes the list as it then is.
C4_FailureChangesNothing ==
    [][/\ (upd.pc = "fetch" /\ upd'.pc # "fetch" /\ BadResponse(upd'.resp)) =>
            /\ upd'.pc = "idle" /\ upd'.err
            /\ instances' = instances /\ heap' = heap
            /\ bc' = bc /\ clients' = clients
       /\ (chk.pc = "idle" /\ chk'.pc = "probing") =>
            /\ chk'.instances = instances
            /\ DOMAIN probes' = DOMAIN instances]_vars

\* C4 witness: after a failed updateInstances a check cycle probes the endpoints of
\* the configuration applied before
C4_Witness ==
    /\ upd.pc = "idle" /\ upd.err
    /\ instances # <<>>
    /\ [i \in DOMAIN instances |-> heap[instances[i]].URL]
         = [i \in DOMAIN Declared(applied) |-> Declared(applied)[i].url]
    /\ chk.pc = "probing" /\ chk.instances = instances
    /\ \E i \in DOMAIN probes : probes[i].pc = "done"

\* ------------------------------------------------------------------------
\* C5
\* ------------------------------------------------------------------------

\* the step in which broadcastUpdate of caller p has tried to send to client c
SendStep(p, c) ==
    /\ bc[p].pc = "send"
    /\ c \in bc[p].todo
    /\ bc'[p].pc # "send" \/ c \notin bc'[p].todo

\* C5: a broadcast never waits for a subscriber. In its loop it can always take the
\* lock, send to each client that is left whatever the client's channel holds, and
\* return when none is left; it never panics, and no step adds a client to the ones
\* that are left. A send appends the payload to the channel of its client when that
\* channel has room and leaves it as it is when it is full, and changes the channel of
\* no other client.
C5_NeverBlocks ==
    /\ [](\A p \in Callers :
            /\ bc[p].pc # "panic"
            /\ bc[p].pc = "lock" => ENABLED BroadcastRLock(p)
            /\ bc[p].pc = "send" =>
                  /\ \A c \in bc[p].todo : ENABLED BroadcastSend(p, c)
                  /\ bc[p].todo = {} => ENABLED BroadcastRUnlock(p))
    /\ [][\A p \in Callers :
            /\ (bc[p].pc = "send" /\ bc'[p].pc = "send") => bc'[p].todo \subseteq bc[p].todo
            /\ \A c \in Conns :
                  SendStep(p, c) =>
                      /\ bc'[p].pc = "send"
                      /\ bc'[p].todo = bc[p].todo \ {c}
                      /\ chans'[c].buf = IF Len(chans[c].buf) < InboxCap
                                         THEN Append(chans[c].buf, bc[p].update)
                                         ELSE chans[c].buf
                      /\ \A d \in Conns \ {c} : chans'[d] = chans[d]]_vars

\* C5 witness: a broadcast has gone through all its clients; the channel of one was
\* full and has not got the payload, the channel of another has got it
C5_Witness ==
    \E p \in Callers : \E c, d \in clients :
        /\ bc[p].pc = "send"
        /\ bc[p].todo = {}
        /\ c # d
        /\ Len(chans[c].buf) = InboxCap
        /\ bc[p].update \notin Range(chans[c].buf)
        /\ chans[d].buf # <<>>
        /\ Last(chans[d].buf) = bc[p].update

\* ------------------------------------------------------------------------
\* C6
\* ------------------------------------------------------------------------

\* the endpoints of the configuration applied last, none before the first
AppliedDeclared == IF applied = <<>> THEN <<>> ELSE Declared(applied)

\* C6: whenever neither updateInstances nor checkAll is running, the list holds the
\* URLs of the configuration applied last, in its order, and the history of every
\* tracked Instance is at most MaxCheckHistory long and is the last Checks of all the
\* Checks the probes appended to that Instance, one for each check cycle at most.
C6_NoCorruption ==
    (upd.pc = "idle" /\ chk.pc = "idle") =>
        /\ [i \in DOMAIN instances |-> heap[instances[i]].URL]
             = [i \in DOMAIN AppliedDeclared |-> AppliedDeclared[i].url]
        /\ \A a \in Tracked :
              /\ Len(heap[a].Checks) <= MaxCheckHistory
              /\ heap[a].Checks = LastN(appended[a], MaxCheckHistory)
              /\ \A i, j \in DOMAIN appended[a] :
                    i < j => appended[a][i].Timestamp < appended[a][j].Timestamp

\* C6 witness: both have returned after updateInstances swapped the list while a probe
\* was in flight, an Instance of the old list is still tracked and has its Checks
C6_Witness ==
    /\ upd.pc = "idle" /\ chk.pc = "idle"
    /\ raced
    /\ nUpd >= 2
    /\ \E a \in Tracked : heap[a].Checks # <<>>
    /\ \E a \in DOMAIN heap : a \notin Tracked /\ appended[a] # <<>>

\* ------------------------------------------------------------------------
\* C7
\* ------------------------------------------------------------------------

\* C7: what a handler has written starts with its initial payload and holds only
\* payloads of its channel after it. The instances of the initial payload are
\* computed by the handler once its channel is registered, and the initial payload is
\* written from them while nothing has been taken from the channel; every later
\* write is the payload at the head of the channel.
C7_InitialFirst ==
    /\ [](\A c \in Conns :
            stream[c] # <<>> =>
                /\ stream[c][1].src = "initial"
                /\ \A i \in 2..Len(stream[c]) : stream[c][i].src = "message")
    /\ [][\A c \in Conns :
            /\ (sse[c].pc = "registered" /\ sse'[c].pc # "registered") =>
                  /\ c \in clients
                  /\ sse'[c].pc = "data"
                  /\ sse'[c].data = GetInstancesData
                  /\ stream'[c] = <<>>
            /\ stream'[c] # stream[c] =>
                  IF stream[c] = <<>>
                  THEN /\ sse[c].pc = "data"
                       /\ stream'[c] = <<[src |-> "initial",
                                          update |-> Update(sse[c].data, GetStatsData)]>>
                       /\ chans'[c] = chans[c]
                  ELSE /\ chans[c].buf # <<>>
                       /\ stream'[c] = Append(stream[c], [src |-> "message",
                                                          update |-> Head(chans[c].buf)])
                       /\ chans'[c].buf = Tail(chans[c].buf)]_vars

\* C7 witness: a broadcast had put its payload in the channel before the handler
\* computed its instances; the handler has written its initial payload and then that
\* payload
C7_Witness ==
    \E c \in Conns :
        /\ sse[c].pc = "stream"
        /\ sse[c].queued > 0
        /\ Len(stream[c]) >= 2
        /\ stream[c][1].src = "initial"
        /\ stream[c][2].src = "message"

\* ------------------------------------------------------------------------
\* C8
\* ------------------------------------------------------------------------

\* C8: a connection whose channel UnregisterClient has deleted is not in m.clients
\* and is not among the clients a broadcast still has to send to; it stays
\* unregistered and nothing is put in its channel any more, by a broadcast that
\* started before or after; once UnregisterClient has returned the channel is closed.
C8_Unregistered ==
    /\ [](\A c \in Conns :
            /\ c \in Unregistered =>
                  /\ c \notin clients
                  /\ \A p \in Callers : bc[p].pc = "send" => c \notin bc[p].todo
            /\ sse[c].pc = "closed" => chans[c].closed)
    /\ [][\A c \in Unregistered :
            /\ sse'[c].pc \in {"unregister", "closed"}
            /\ chans'[c].buf = chans[c].buf]_vars

\* C8 witness: a broadcast that was called after UnregisterClient had deleted and
\* closed the channel of one connection has gone through all its clients, and the
\* channel of another connection has got its payload
C8_Witness ==
    \E p \in Callers : \E c \in Conns : \E d \in clients :
        /\ bc[p].pc = "send"
        /\ bc[p].todo = {}
        /\ c \in bc[p].gone
        /\ chans[c].closed
        /\ chans[d].buf # <<>>
        /\ Last(chans[d].buf) = bc[p].update

\* ------------------------------------------------------------------------
\* C9
\* ------------------------------------------------------------------------

GroupOrderAt(i) == heap[instances[i]].GroupOrder

\* C9: whenever updateInstances is not merging, GroupOrder does not decrease along the
\* list, two neighbours have the same GroupOrder exactly when the configuration
\* applied last declares them in the same group of the same section, and every
\* endpoint declared in an API group has a smaller GroupOrder than every endpoint
\* declared in a UI group.
C9_GroupOrder ==
    upd.pc # "merge" =>
        LET d == AppliedDeclared IN
        /\ Len(instances) = Len(d)
        /\ \A i \in 1..(Len(instances) - 1) :
              /\ GroupOrderAt(i) <= GroupOrderAt(i + 1)
              /\ (GroupOrderAt(i) = GroupOrderAt(i + 1))
                    <=> (d[i].section = d[i + 1].section /\ d[i].g = d[i + 1].g)
        /\ \A i, j \in DOMAIN instances :
              (d[i].section = "api" /\ d[j].section = "ui")
                 => GroupOrderAt(i) < GroupOrderAt(j)

\* C9 witness: a list of reused Instances in a new order, with two neighbours of one
\* group and an API endpoint followed by a UI endpoint
C9_Witness ==
    /\ upd.pc = "idle"
    /\ Len(instances) >= 3
    /\ instances[1] > instances[2]
    /\ GroupOrderAt(1) = GroupOrderAt(2)
    /\ GroupOrderAt(2) < GroupOrderAt(3)
    /\ AppliedDeclared[2].section = "api" /\ AppliedDeclared[3].section = "ui"

\* ------------------------------------------------------------------------
\* C10
\* ------------------------------------------------------------------------

\* C10: the Instance at position i of the list has Index i, so the Index values of
\* the list are 1..N without gap or repeat.
C10_DisplayIndex ==
    /\ \A i \in DOMAIN instances : heap[instances[i]].Index = i
    /\ {heap[a].Index : a \in Tracked} = 1..Len(instances)

\* C10 witness: a list of three in which two reused Instances have changed places
C10_Witness ==
    /\ upd.pc = "idle"
    /\ Len(instances) >= 3
    /\ instances[1] > instances[2]
    /\ heap[instances[1]].Index = 1 /\ heap[instances[2]].Index = 2

\* ------------------------------------------------------------------------
\* C11
\* ------------------------------------------------------------------------

\* C11: the step that ends a successful updateInstances calls broadcastUpdate if and
\* only if the Instances of the new list are not the Instances of the old list (one
\* was added or one was removed).
C11_BroadcastIffMembershipChanged ==
    [][CommitStep =>
          ((bc'["upd"].pc = "data") <=> (Range(instances') # Range(instances)))]_vars

\* ------------------------------------------------------------------------
\* C12
\* ------------------------------------------------------------------------

\* C12: checkAll leaves its wait only to call broadcastUpdate, once, when every
\* goroutine of the cycle has appended its Check; broadcastUpdate is called for it at
\* no other step and the cycle ends only when that broadcastUpdate has got to its
\* clients. The instances that this broadcastUpdate computes show, for every Instance
\* that got a Check in the cycle, that Check as its last one.
C12_OneBroadcastAfterAllProbes ==
    [][/\ (chk.pc = "probing" /\ chk'.pc # "probing") =>
              /\ \A i \in DOMAIN probes : probes[i].pc = "done"
              /\ chk'.pc = "bcast"
              /\ bc'["chk"].pc = "data"
       /\ (bc'["chk"].pc = "data" /\ bc["chk"].pc # "data") => chk.pc = "probing"
       /\ (chk.pc = "bcast" /\ chk'.pc # "bcast") =>
              /\ chk'.pc = "idle"
              /\ bc["chk"].pc \in {"count", "send"}
       /\ (bc["chk"].pc = "data" /\ bc'["chk"].pc # "data") =>
              /\ bc'["chk"].pc = "stats"
              /\ \A a \in DOMAIN heap :
                    (appended[a] # <<>> /\ Last(appended[a]).Timestamp = nCycles) =>
                        \E i \in DOMAIN instances :
                            /\ instances[i] = a
                            /\ bc'["chk"].data[i].LastCheck = <<Last(appended[a])>>]_vars

\* C12 witness: the second check cycle or a later one has computed the instances of
\* its broadcast; there are several and each shows a Check of this cycle
C12_Witness ==
    /\ bc["chk"].pc = "stats"
    /\ nCycles >= 2
    /\ Len(bc["chk"].data) >= 2
    /\ \A i \in DOMAIN bc["chk"].data :
          /\ bc["chk"].data[i].LastCheck # <<>>
          /\ bc["chk"].data[i].LastCheck[1].Timestamp = nCycles

\* ------------------------------------------------------------------------
\* C13
\* ------------------------------------------------------------------------

\* the step in which the goroutine at position i of the cycle appends its Check
ProbeStep(i) ==
    /\ i \in DOMAIN probes /\ probes[i].pc = "inflight"
    /\ i \in DOMAIN probes' /\ probes'[i].pc = "done"

\* a Check as the classification wants it
Classified(check) ==
    /\ check.Success => (check.StatusCode >= 200 /\ check.StatusCode < 300 /\ check.Error = "")
    /\ check.Error # "" => (~check.Success /\ check.StatusCode = 0)
    /\ check.Error = "" => (check.Success <=> (check.StatusCode >= 200 /\ check.StatusCode < 300))

\* C13: every Check of every history is classified, and the Check a goroutine appends
\* is the classification of what its request returned: for a transport error no
\* success, status code 0 and an error message; for a response its status code, no
\* error message, and success exactly for a status code from 200 to 299.
C13_OutcomeClassification ==
    /\ [](\A a \in DOMAIN heap : \A k \in DOMAIN heap[a].Checks : Classified(heap[a].Checks[k]))
    /\ [][\A i \in DOMAIN probes :
            ProbeStep(i) =>
                LET out == probes'[i].out
                    check == Last(heap'[chk.instances[i]].Checks)
                IN IF out.err
                   THEN ~check.Success /\ check.StatusCode = 0 /\ check.Error # ""
                   ELSE /\ check.StatusCode = out.StatusCode
                        /\ check.Error = ""
                        /\ check.Success <=> (200 <= out.StatusCode /\ out.StatusCode < 300)]_vars

\* C13 witness: one Instance has got a Check of a transport error, a successful Check
\* with status 299 and a failed Check with status 300, the last of them in the check
\* cycle that has just appended
C13_Witness ==
    \E a \in DOMAIN heap :
        /\ \E k \in DOMAIN appended[a] : appended[a][k].Error # ""
        /\ \E k \in DOMAIN appended[a] : appended[a][k].StatusCode = 299 /\ appended[a][k].Success
        /\ \E k \in DOMAIN appended[a] : appended[a][k].StatusCode = 300 /\ ~appended[a][k].Success
        /\ heap[a].Checks = LastN(appended[a], MaxCheckHistory)
        /\ Last(appended[a]).Timestamp = MaxCycles

\* ------------------------------------------------------------------------
\* C14
\* ------------------------------------------------------------------------

\* an Instance that updateInstances has allocated and not yet put in m.instances
Pending(a) == upd.pc = "merge" /\ a \in Range(upd.updatedInstances)

\* an Instance that was in m.instances and is not any more
Removed(a) == a \notin Range(instances) /\ ~Pending(a)

RECURSIVE FirstOccurrences(_, _)
\* a sequence without the repetitions of its entries
FirstOccurrences(sq, acc) ==
    IF sq = <<>> THEN acc
    ELSE FirstOccurrences(Tail(sq), IF Head(sq) \in Range(acc) THEN acc ELSE Append(acc, Head(sq)))

\* the keys of a section of a configuration in the order of the text, the empty
\* sequence when the section is not there
KeysInText(body, section) ==
    LET top == ParseJSON(body).v IN
    IF section \in DOMAIN top.m /\ top.m[section].k = "obj"
    THEN FirstOccurrences(top.m[section].keys, <<>>)
    ELSE <<>>

\* C15: the orders that updateInstances gets from extractOrderFromJSON for the api
\* and the ui section are the keys of that section in the order of the text, each
\* once.
C15_LiteralKeyOrder ==
    upd.pc = "merge" =>
        /\ upd.apiOrder = KeysInText(upd.resp.body, "api")
        /\ upd.uiOrder = KeysInText(upd.resp.body, "ui")

\* ------------------------------------------------------------------------
\* C16
\* ------------------------------------------------------------------------

\* the number of successful checks of a history
SuccessCount(checks) == Cardinality({k \in DOMAIN checks : checks[k].Success})

RECURSIVE SumOfTimes(_)
\* the sum of the response times of a history
SumOfTimes(checks) ==
    IF checks = <<>> THEN 0
    ELSE SumOfTimes(SubSeq(checks, 1, Len(checks) - 1)) + checks[Len(checks)].ResponseTime

\* the views of the snapshot that broadcastUpdate has just taken
SnapshotViews ==
    UNION {Range(bc[p].data) : p \in {q \in Callers : bc[q].pc = "stats"}}

C17_WritesUnderLock ==
    [][\A a \in DOMAIN heap :
          (heap'[a].Checks # heap[a].Checks \/ Labels(heap'[a]) # Labels(heap[a]))
             => ~InstanceRLocked(a)]_vars

\* ------------------------------------------------------------------------
\* C18
\* ------------------------------------------------------------------------

\* the tasks that hold m.mu: a handler inside GetInstancesData (updateInstances and
\* checkAll take and release it within one step)
MuHolders == {<<"conn", c>> : c \in {d \in Conns : sse[d].pc \in {"rlocked", "held"}}}

\* the tasks that hold the mu of the Instance a
InstanceHolders(a) ==
    {<<"conn", c>> : c \in {d \in Conns : sse[d].pc = "held" /\ instances[sse[d].i] = a}}
    \cup {<<"probe", i>> : i \in {j \in DOMAIN probes : ProbeLocked(j) /\ chk.instances[j] = a}}

\* the tasks that hold clientsMu: a caller of broadcastUpdate inside its loop
ClientsMuHolders == {<<"call", p>> : p \in {q \in Callers : bc[q].pc = "send"}}

\* the tasks that wait for the network: updateInstances in http.Get or io.ReadAll, a
\* goroutine of checkAll in client.Get
NetworkTasks ==
    (IF upd.pc = "fetch" THEN {<<"call", "upd">>} ELSE {})
    \cup {<<"probe", i>> : i \in {j \in DOMAIN probes : probes[j].pc = "inflight"}}

\* C18: a task that performs the fetch of the configuration or the request of a probe
\* holds neither m.mu, nor the mu of any Instance, nor clientsMu.
C18_NetworkOffLocks ==
    \A t \in NetworkTasks :
        /\ t \notin MuHolders
        /\ t \notin ClientsMuHolders
        /\ \A a \in DOMAIN heap : t \notin InstanceHolders(a)

\* C18 witness: a probe is waiting for its response while another goroutine holds the
\* mu of its Instance for the append and a handler holds m.mu and the mu of the
\* probed Instance for reading
C18_Witness ==
    \E i \in DOMAIN probes :
        /\ probes[i].pc = "inflight"
        /\ InstanceRLocked(chk.instances[i])
        /\ MuHolders # {}
        /\ \E j \in DOMAIN probes : j # i /\ InstanceHolders(chk.instances[j]) = {<<"probe", j>>}

\* ------------------------------------------------------------------------
\* C19
\* ------------------------------------------------------------------------

\* C19: with every probe answered, every check cycle that has started finishes,
\* after its broadcast, whatever the subscriber, the requests for the instances and
\* the reconciliations do meanwhile, and no lock is waited for or held for ever: a
\* reconciliation that has its configuration swaps the list, publishes and returns,
\* and a request for the instances that has taken m.mu returns.
C19_CyclesFinish ==
    /\ (chk.pc = "probing") ~> (chk.pc = "idle")
    /\ (upd.pc \in {"merge", "bcast"}) ~> (upd.pc = "idle")
    /\ (sse[2].pc \in {"rlocked", "held"}) ~> (sse[2].pc = "none")

\* C19 witness: a second check cycle has delivered its payload to the subscriber
\* and still holds clientsMu, while a request for the instances holds m.mu and the
\* mu of an Instance, after the last reconciliation has returned
C19_Witness ==
    /\ bc["chk"].pc = "send"
    /\ bc["chk"].todo = {}
    /\ sse[2].pc = "held"
    /\ upd.pc = "idle"
    /\ nUpd = MaxReconciles
    /\ nCycles >= 2

\* ------------------------------------------------------------------------
\* C20
\* ------------------------------------------------------------------------

\* the Checks that the check cycle of number cycle has appended to the Instance a
ChecksOfCycle(a, cycle) == {k \in DOMAIN appended[a] : appended[a][k].Timestamp = cycle}

\* the positions of the running cycle's snapshot that hold the Instance a
SnapshotPositions(a) == {i \in DOMAIN chk.instances : chk.instances[i] = a}

\* C20: a check cycle takes the list of the Registry as its snapshot and starts one
\* probe per entry; when its wait returns, every Instance of the snapshot has had
\* exactly one Check of this cycle appended and every other Instance, those added by
\* a reconciliation since the snapshot among them, has had none; a step of one probe
\* leaves the other probes as they are, and a probe whose request is out can
\* complete whatever the other probes of the cycle have done.
C20_OneCheckPerSnapshotEntry ==
    [][/\ (chk.pc = "idle" /\ chk'.pc = "probing") =>
            /\ chk'.instances = instances
            /\ DOMAIN probes' = DOMAIN instances
            /\ \A i \in DOMAIN probes' : probes'[i].pc = "inflight"
       /\ (chk.pc = "probing" /\ chk'.pc = "bcast") =>
            \A a \in DOMAIN heap :
                /\ Cardinality(SnapshotPositions(a)) <= 1
                /\ Cardinality(ChecksOfCycle(a, nCycles)) = Cardinality(SnapshotPositions(a))
       /\ (chk.pc = "probing" /\ chk'.pc = "probing") =>
            /\ Cardinality({i \in DOMAIN probes : probes'[i] # probes[i]}) <= 1
            /\ \A i \in DOMAIN probes :
                   probes'[i].pc = "inflight" => ENABLED ProbeRecv(i, Answer200)
      ]_vars

\* C20 witness: the probes of a second cycle over two Instances have all appended
\* their Check, and the list has meanwhile been swapped for one with an Instance
\* that the snapshot does not have, which has no Check
C20_Witness ==
    /\ chk.pc = "probing"
    /\ nCycles >= 2
    /\ Len(chk.instances) >= 2
    /\ \A i \in DOMAIN probes : probes[i].pc = "done"
    /\ \A i \in DOMAIN chk.instances :
           Cardinality(ChecksOfCycle(chk.instances[i], nCycles)) = 1
    /\ \E a \in Range(instances) : a \notin Range(chk.instances) /\ appended[a] = <<>>

\* ------------------------------------------------------------------------
\* C21
\* ------------------------------------------------------------------------

\* C21: the Registry's list never holds two Instances with the same URL, whatever
\* configurations the reconciliations have applied, those that list one URL more
\* than once among them.
C21_UniqueURL ==
    \A i, j \in DOMAIN instances :
        heap[instances[i]].URL = heap[instances[j]].URL => i = j

\* ------------------------------------------------------------------------
\* C22
\* ------------------------------------------------------------------------

\* the inner-loop iterations of the reconciliation that built the Registry's list:
\* entry k of the list was made or reused for item k
AppliedWork ==
    IF applied = <<>> THEN <<>>
    ELSE WorkList(UnmarshalInstancesJSON(applied), extractOrderFromJSON(applied, "api"),
                  extractOrderFromJSON(applied, "ui"))

\* the snapshots that a call of GetInstancesData is about to return to its handler
ReturnedSnapshots ==
    {sse[c].data : c \in {d \in Conns : sse[d].pc = "rlocked" /\ sse[d].i > Len(instances)}}

\* C22: every snapshot that GetInstancesData returns shows the list of the Registry
\* with the group, the group order and the cors flag that the reconciliation which
\* built this list gave its entries, never those of a reconciliation that has not
\* yet swapped its list in; so the group order does not decrease along a snapshot.
C22_AtomicForReaders ==
    \A data \in ReturnedSnapshots :
        /\ Len(data) = Len(AppliedWork)
        /\ \A k \in DOMAIN data :
               /\ data[k].Group = AppliedWork[k].group
               /\ data[k].GroupOrder = AppliedWork[k].groupIndex
               /\ data[k].Cors = AppliedWork[k].Cors
        /\ \A k \in 1..(Len(data) - 1) : data[k].GroupOrder <= data[k + 1].GroupOrder

\* ------------------------------------------------------------------------
\* C23
\* ------------------------------------------------------------------------

\* the payloads that broadcastUpdate has built and not yet finished sending
BroadcastPayloads ==
    {bc[p].update : p \in {q \in Callers : bc[q].pc \in {"count", "lock", "send"}}}

\* the payloads written to the dashboard connections, initial ones and messages
WrittenPayloads ==
    UNION {{stream[c][k].update : k \in DOMAIN stream[c]} : c \in Conns}

\* the views of a payload whose last check is there and successful
UpViews(update) ==
    {k \in DOMAIN update.instances :
        /\ update.instances[k].LastCheck # <<>>
        /\ update.instances[k].LastCheck[1].Success}

\* C23: in every payload, built by broadcastUpdate or written as the initial push of
\* a connection, total_instances is the number of views of the payload and
\* up_instances is the number of its views whose last check is there and
\* successful, whatever ran between GetInstancesData and GetStatsData.
C23_PayloadConsistent ==
    \A update \in BroadcastPayloads \cup WrittenPayloads :
        /\ update.stats.total_instances = Len(update.instances)
        /\ update.stats.up_instances = Cardinality(UpViews(update))

\* ------------------------------------------------------------------------
\* C24
\* ------------------------------------------------------------------------

\* the start time of the latest check that a payload shows, 0 if it shows none; the
\* clock is the number of the check cycle, so a snapshot computed later shows a
\* time at least as high
Newest(update) ==
    LET times == {update.instances[k].LastCheck[1].Timestamp :
                     k \in {j \in DOMAIN update.instances :
                               update.instances[j].LastCheck # <<>>}}
    IN IF times = {} THEN 0 ELSE CHOOSE t \in times : \A u \in times : u <= t

\* C24: the payloads written to one connection, the initial one and then those taken
\* from its channel, are written in the order in which their snapshots were
\* computed: no payload is written after one that shows a later check, so the
\* dashboard never goes back to an older state of the Registry.
C24_StreamInOrder ==
    \A c \in Conns :
        \A k, l \in DOMAIN stream[c] :
            k < l => Newest(stream[c][k].update) <= Newest(stream[c][l].update)

\* ------------------------------------------------------------------------
\* C25
\* ------------------------------------------------------------------------

\* C25: broadcastUpdate never tries to send on a closed channel and never panics. A
\* closed channel is not in m.clients and is not among the clients a broadcast has
\* still to send to, and at the step that closes a channel no broadcast has it left
\* to send to; at every step that tries a send the channel is open.
C25_NoSendOnClosed ==
    /\ [](\A p \in Callers :
            /\ bc[p].pc # "panic"
            /\ \A c \in Conns :
                  chans[c].closed =>
                      /\ c \notin clients
                      /\ bc[p].pc = "send" => c \notin bc[p].todo)
    /\ [][\A c \in Conns :
            /\ (chans'[c].closed /\ ~chans[c].closed) =>
                  /\ c \notin clients
                  /\ \A p \in Callers : bc[p].pc = "send" => c \notin bc[p].todo
            /\ \A p \in Callers : SendStep(p, c) => ~chans[c].closed /\ ~chans'[c].closed
         ]_vars

\* C25 witness: the channel of a connection was sent a payload, then deleted and
\* closed with the payload still in it, and a broadcast called since then holds
\* clientsMu and has still to send to the other connection
C25_Witness ==
    \E p \in Callers : \E c \in Conns :
        /\ chans[c].closed
        /\ chans[c].buf # <<>>
        /\ bc[p].pc = "send"
        /\ bc[p].todo # {}
        /\ c \in bc[p].gone

\* ------------------------------------------------------------------------
\* C26
\* ------------------------------------------------------------------------

\* C26: whenever no reconciliation is in its loops, every Instance of the list has
\* the type of the section that declares its URL in the configuration applied last,
\* also when its URL was declared in the other section before: an Instance of a UI
\* group has type ui, cors false and is probed at its URL, an Instance of an API
\* group has type api and is probed at its URL with the search suffix; so the
\* Instances of type api come before those of type ui.
C26_KindMatchesSection ==
    upd.pc # "merge" =>
        /\ Len(instances) = Len(AppliedWork)
        /\ \A i \in DOMAIN instances :
              LET instance == heap[instances[i]] IN
              /\ instance.InstanceType = AppliedWork[i].section
              /\ AppliedWork[i].section = "ui" =>
                    /\ ~instance.Cors
                    /\ CheckURL(instance) = <<instance.URL>>
              /\ AppliedWork[i].section = "api" =>
                    CheckURL(instance) = <<instance.URL, "/search/?s=kanye">>
        /\ \A i, j \in DOMAIN instances :
              (heap[instances[i]].InstanceType = "api"
                  /\ heap[instances[j]].InstanceType = "ui") => i < j

\* ------------------------------------------------------------------------
\* C27
\* ------------------------------------------------------------------------

\* C27: under Start a check cycle and a reconciliation never run at the same time. A
\* reconciliation starts only when no check cycle is running, its probes and its
\* broadcast being over, and a check cycle starts only when no reconciliation is
\* running; a check cycle that has started keeps its snapshot and its probes, leaves
\* its wait only when every probe is done, and returns only from its broadcast.
C27_OneLoop ==
    /\ [](~(upd.pc # "idle" /\ chk.pc # "idle"))
    /\ [][/\ (upd.pc = "idle" /\ upd'.pc # "idle") =>
                /\ chk.pc = "idle"
                /\ probes = <<>>
                /\ bc["chk"].pc = "idle"
          /\ (chk.pc = "idle" /\ chk'.pc # "idle") =>
                /\ upd.pc = "idle"
                /\ bc["upd"].pc = "idle"
          /\ chk.pc = "probing" =>
                /\ chk'.pc \in {"probing", "bcast"}
                /\ chk'.pc = "bcast" => \A i \in DOMAIN probes : probes[i].pc = "done"
                /\ chk'.pc = "probing" =>
                      /\ chk'.instances = chk.instances
                      /\ DOMAIN probes' = DOMAIN probes
                      /\ \A i \in DOMAIN probes :
                            probes[i].pc = "done" => probes'[i] = probes[i]
          /\ chk.pc = "bcast" =>
                /\ chk'.pc \in {"bcast", "idle"}
                /\ chk'.pc = "idle" => bc["chk"].pc \in {"count", "send"}
         ]_vars

\* C27 witness: a third check cycle, started after a reconciliation that the loop of
\* Start ran between two check cycles, has a probe done
C27_Witness ==
    /\ chk.pc = "probing"
    /\ nCycles = MaxCycles
    /\ nUpd = MaxReconciles
    /\ upd.pc = "idle"
    /\ ~upd.err
    /\ \E i \in DOMAIN probes : probes[i].pc = "done"
    /\ \E a \in DOMAIN appended : appended[a] # <<>> /\ Last(appended[a]).Timestamp < nCycles - 1

====
